---- MODULE Spec2Model ----
(***************************************************************************)
(* Model of webrtc_audio_processing/audio_processing.py: the AudioProcessor *)
(* wrapper (construction, process, close, __del__) over the four native     *)
(* entry points CreateApm, SetConfig, ProcessFrame and DestroyApm, called   *)
(* from several Python threads.  ctypes releases the interpreter lock for   *)
(* the duration of a foreign call, so a native call is a pair of steps      *)
(* (entry, return) between which the other threads run.                     *)
(***************************************************************************)
EXTENDS Integers, FiniteSets, Sequences, TLC

\* ---------------------------------------------------------------- bounds
NumThreads == 2
NumHandles == 2
MaxOps == 4

Threads == 1..NumThreads
Handles == 1..NumHandles

\* ------------------------------------------------------- program constants
\* A null c_void_p (ctypes hands it to Python as None, which is falsy).
NULL == 0
\* The owner recorded for an unlocked threading.Lock.
NoThread == 0
\* examples/realtime_demo.py: the frame duration and the chunk computed from it.
FRAME_MS == 10
SupportedRates == {16000, 48000}
CHUNK(SAMPLE_RATE) == (SAMPLE_RATE * FRAME_MS) \div 1000

\* The pointer CreateApm hands out for the instance made for handle object h.
InstanceOf(h) == h
Instances == {InstanceOf(h) : h \in Handles}
Pointers == Instances \cup {NULL}

\* Values of the c_int status SetConfig and ProcessFrame return.
StatusCodes == {-1, 0, 1}

\* int(flag) in the SetConfig call.
int(b) == IF b THEN 1 ELSE 0

\* The constructor's arguments (enable_aec, enable_ns, enable_agc): every
\* combination, and the defaults, which the module's own test passes.
AllFlags == BOOLEAN \X BOOLEAN \X BOOLEAN
DefaultFlags == <<TRUE, TRUE, TRUE>>

\* ------------------------------------------------------------------ frames
NoFrame == [kind |-> "none", dtype |-> "none", size |-> 0]
\* The objects a caller hands to process(): float32 arrays of one 10 ms chunk
\* at each supported rate, an int16 array (what realtime_demo.py passes) and
\* raw bytes.
Frames ==
    { [kind |-> "ndarray", dtype |-> "float32", size |-> CHUNK(r)] : r \in SupportedRates }
    \cup { [kind |-> "ndarray", dtype |-> "int16", size |-> CHUNK(16000)],
           [kind |-> "bytes", dtype |-> "none", size |-> 2 * CHUNK(16000)] }

\* isinstance(frame, np.ndarray)
IsNdarray(frame) == frame.kind = "ndarray"
\* No test of the element type.
IsFloat32_Unchecked(frame) == TRUE

\* frame.dtype == np.float32
IsFloat32(frame) == frame.dtype = "float32"
\* The two checks process() makes before anything else.
TypeOk(frame) == IsNdarray(frame) /\ IsFloat32(frame)
\* An output array of one fixed size, whatever the input.
zeros_like_Fixed(frame) ==
    [kind |-> "ndarray", dtype |-> frame.dtype, size |-> CHUNK(16000)]

\* np.zeros_like(frame): a new array of the same shape and dtype.
zeros_like(frame) == [kind |-> "ndarray", dtype |-> frame.dtype, size |-> frame.size]
\* Arrays are told apart by a number: CallerBuffer is an array the caller made
\* itself, the arrays process() allocates are numbered from 1 by the call that
\* allocates them, NoBuffer is no array.
NoBuffer == -1
CallerBuffer == 0
\* out = frame: the output is written into the caller's array.
NewBuffer_InPlace(buf, n) == buf

\* out = np.zeros_like(frame): an array allocated by this call (the call made
\* after n earlier ones), never the input buf.
NewBuffer(buf, n) == n + 1
\* samples = frame.size
SamplesOf(frame) == frame.size
\* Only a positive status is taken for a failure.
Failed_Positive(ret) == ret > 0

\* if ret != 0: raise
Failed(ret) == ret # 0

VARIABLES
    obj,        \* obj[h]: life of the Python object: none, init, live, failed, ended
    _apm,       \* _apm[h]: the instance reference held by the object (NULL = None)
    _lock,      \* _lock[h]: the thread holding the object's threading.Lock
    native,     \* native[i]: the instance in the library: free, live, destroying, destroyed
    config,     \* config[i]: the arguments of the SetConfig calls made on instance i, in order
    nDestroy,   \* nDestroy[p]: DestroyApm calls made with pointer p (NULL included)
    closed,     \* closed[h]: some close() call on h has returned
    th,         \* th[t]: the call thread t is executing
    last,       \* the outcome of the call the latest step ended (NoRes: it ended none)
    nops,       \* calls started so far
    crashed     \* the process died inside the native library

vars == <<obj, _apm, _lock, native, config, nDestroy, closed, th, last, nops, crashed>>

NoRes == [t |-> 0, op |-> "none", h |-> 0, kind |-> "none", exc |-> "none", msg |-> "none",
          code |-> {}, frame |-> NoFrame, out |-> NoFrame, ret |-> {},
          called |-> FALSE, arg |-> NULL, samples |-> 0, afterClose |-> FALSE,
          flags |-> <<>>, inbuf |-> NoBuffer, outbuf |-> NoBuffer, wrote |-> NoBuffer]

IdleTh == [pc |-> "idle", op |-> "none", h |-> 0, frame |-> NoFrame, samples |-> 0,
           out |-> NoFrame, arg |-> NULL, flags |-> <<>>, afterClose |-> FALSE,
           inbuf |-> NoBuffer, outbuf |-> NoBuffer]

\* Thread t may start a call: it is executing none.  Threads that execute no
\* call are interchangeable, so the call is given to the first of them.
Caller(t) ==
    /\ th[t].pc = "idle"
    /\ \A u \in Threads : u < t => th[u].pc # "idle"

\* No thread is executing a method of handle object h.
Unused(h) == \A t \in Threads : th[t].h # h

\* The thread returns to its caller: its locals die.
Finish(t) == IdleTh

Raise(t, exc, msg, code) ==
    [NoRes EXCEPT !.t = t, !.op = th[t].op, !.h = th[t].h, !.kind = "raise", !.exc = exc,
                  !.msg = msg, !.code = code, !.frame = th[t].frame,
                  !.afterClose = th[t].afterClose, !.inbuf = th[t].inbuf]

Return(t, out) ==
    [NoRes EXCEPT !.t = t, !.op = th[t].op, !.h = th[t].h, !.kind = "return", !.out = out,
                  !.frame = th[t].frame, !.afterClose = th[t].afterClose,
                  !.inbuf = th[t].inbuf, !.outbuf = th[t].outbuf]

Init ==
    /\ obj = [h \in Handles |-> "none"]
    /\ _apm = [h \in Handles |-> NULL]
    /\ _lock = [h \in Handles |-> NoThread]
    /\ native = [i \in Instances |-> "free"]
    /\ config = [i \in Instances |-> <<>>]
    /\ nDestroy = [p \in Pointers |-> 0]
    /\ closed = [h \in Handles |-> FALSE]
    /\ th = [t \in Threads |-> IdleTh]
    /\ last = NoRes
    /\ nops = 0
    /\ crashed = FALSE

\* ------------------------------------------------------------ __init__
\* AudioProcessor(enable_aec, enable_ns, enable_agc): the lock is made and
\* CreateApm is entered.  Handle objects are numbered in order of creation.
Construct(t, h, enable_aec, enable_ns, enable_agc) ==
    /\ ~crashed
    /\ Caller(t)
    /\ nops < MaxOps
    /\ obj[h] = "none"
    /\ \A g \in Handles : g < h => obj[g] # "none"
    /\ obj' = [obj EXCEPT ![h] = "init"]
    /\ _lock' = [_lock EXCEPT ![h] = NoThread]
    /\ th' = [th EXCEPT ![t] = [IdleTh EXCEPT !.pc = "in_CreateApm", !.op = "__init__",
                                              !.h = h,
                                              !.flags = <<enable_aec, enable_ns, enable_agc>>]]
    /\ nops' = nops + 1
    /\ last' = NoRes
    /\ UNCHANGED <<_apm, native, config, nDestroy, closed, crashed>>

\* The first two flags change places.
SetConfigArgs_Swapped(flags) == <<int(flags[2]), int(flags[1]), int(flags[3])>>

\* The arguments SetConfig is given after the instance:
\* int(enable_aec), int(enable_ns), int(enable_agc).
SetConfigArgs(flags) == <<int(flags[1]), int(flags[2]), int(flags[3])>>

\* No test of the reference CreateApm returned.
IsNull_Unchecked(p) == FALSE

\* if not self._apm
IsNull(p) == p = NULL

\* CreateApm returns p (a new instance, or NULL); self._apm = p; a null
\* reference raises RuntimeError, otherwise SetConfig is entered.
CreateApmReturn(t, p) ==
    LET h == th[t].h IN
    /\ ~crashed
    /\ th[t].pc = "in_CreateApm"
    /\ p \in {NULL, InstanceOf(h)}
    /\ _apm' = [_apm EXCEPT ![h] = p]
    /\ native' = IF p = NULL THEN native ELSE [native EXCEPT ![p] = "live"]
    /\ IF IsNull(p)
       THEN /\ th' = [th EXCEPT ![t] = Finish(t)]
            /\ last' = Raise(t, "RuntimeError", "CreateApm", {})
            /\ obj' = [obj EXCEPT ![h] = "failed"]
            /\ config' = config
       ELSE /\ th' = [th EXCEPT ![t].pc = "in_SetConfig", ![t].arg = p]
            /\ last' = NoRes
            /\ obj' = obj
            /\ config' = IF p = NULL THEN config
                         ELSE [config EXCEPT ![p] = Append(@, SetConfigArgs(th[t].flags))]
    /\ UNCHANGED <<_lock, nDestroy, closed, nops, crashed>>

\* SetConfig returns ret; a non-zero ret raises RuntimeError carrying it,
\* otherwise the constructor returns the object to its caller.
SetConfigReturn(t, ret) ==
    LET h == th[t].h IN
    /\ ~crashed
    /\ th[t].pc = "in_SetConfig"
    /\ ret \in StatusCodes
    /\ IF Failed(ret)
       THEN /\ last' = [Raise(t, "RuntimeError", "SetConfig", {ret})
                           EXCEPT !.ret = {ret}, !.arg = th[t].arg, !.flags = th[t].flags]
            /\ obj' = [obj EXCEPT ![h] = "failed"]
       ELSE /\ last' = [Return(t, NoFrame) EXCEPT !.ret = {ret}, !.arg = th[t].arg,
                                                   !.flags = th[t].flags]
            /\ obj' = [obj EXCEPT ![h] = "live"]
    /\ th' = [th EXCEPT ![t] = Finish(t)]
    /\ UNCHANGED <<_apm, _lock, native, config, nDestroy, closed, nops, crashed>>

\* ------------------------------------------------------------- process
\* The arrays a caller can pass as frame: one it made itself, or the array
\* the process() call that has just returned handed out, when frame is that
\* array.
InputBuffers(frame) ==
    {CallerBuffer} \cup
        (IF last.op = "process" /\ last.kind = "return" /\ last.out = frame
         THEN {last.outbuf} ELSE {})

\* process(frame) up to the with statement: the two type checks, then
\* samples, the output array and the pointers to the two arrays.
Process(t, h, frame) ==
    /\ ~crashed
    /\ Caller(t)
    /\ nops < MaxOps
    /\ obj[h] = "live"
    /\ frame \in Frames
    /\ nops' = nops + 1
    /\ \E buf \in InputBuffers(frame) :
        IF TypeOk(frame)
        THEN /\ th' = [th EXCEPT ![t] = [IdleTh EXCEPT !.pc = "with_lock", !.op = "process",
                                                       !.h = h, !.frame = frame,
                                                       !.samples = SamplesOf(frame),
                                                       !.out = zeros_like(frame),
                                                       !.afterClose = closed[h],
                                                       !.inbuf = buf,
                                                       !.outbuf = NewBuffer(buf, nops)]]
             /\ last' = NoRes
        ELSE /\ th' = th
             /\ last' = [NoRes EXCEPT !.t = t, !.op = "process", !.h = h, !.kind = "raise",
                                      !.exc = "TypeError", !.msg = "Input",
                                      !.frame = frame, !.afterClose = closed[h],
                                      !.inbuf = buf]
    /\ UNCHANGED <<obj, _apm, _lock, native, config, nDestroy, closed, crashed>>

\* A lock that never makes its caller wait.
CanAcquire_NoWait(h) == TRUE

\* One lock shared by every handle object.
CanAcquire_Global(h) == \A g \in Handles : _lock[g] = NoThread

\* threading.Lock: acquire blocks while another thread holds the lock.
CanAcquire(h) == _lock[h] = NoThread

\* with self._lock: the lock is taken and ProcessFrame is entered with the
\* reference self._apm holds at that moment.
ProcessFrameCall(t) ==
    LET h == th[t].h IN
    /\ ~crashed
    /\ th[t].pc = "with_lock"
    /\ CanAcquire(h)
    /\ _lock' = [_lock EXCEPT ![h] = t]
    /\ th' = [th EXCEPT ![t].pc = "in_ProcessFrame", ![t].arg = _apm[h]]
    /\ last' = NoRes
    /\ UNCHANGED <<obj, _apm, native, config, nDestroy, closed, nops, crashed>>

\* The instance a native call was given is not one the library can use: a
\* null pointer, or an instance DestroyApm has been called on.
Dangling(p) == IF p = NULL THEN TRUE ELSE native[p] # "live"

\* The lock stays with the thread that took it.
Released_Held(t, ret) == t

\* The lock is given up only when the native call succeeded.
Released_IfOk(t, ret) == IF ret = 0 THEN NoThread ELSE t

\* The end of the with block: the lock is given up whatever ret is (the test
\* of ret comes after the block).
Released(t, ret) == NoThread

\* ProcessFrame returns ret, having written through out_c, the pointer to out
\* (in_frame is declared const float*); the lock is released; a non-zero ret
\* raises RuntimeError carrying it, otherwise out is returned.
ProcessFrameReturn(t, ret) ==
    LET h == th[t].h IN
    /\ ~crashed
    /\ th[t].pc = "in_ProcessFrame"
    /\ ret \in StatusCodes
    /\ _lock' = [_lock EXCEPT ![h] = Released(t, ret)]
    /\ LET r == IF Failed(ret)
                THEN Raise(t, "RuntimeError", "ProcessFrame", {ret})
                ELSE Return(t, th[t].out)
       IN last' = [r EXCEPT !.ret = {ret}, !.called = TRUE, !.samples = th[t].samples,
                            !.arg = th[t].arg, !.wrote = th[t].outbuf]
    /\ th' = [th EXCEPT ![t] = Finish(t)]
    /\ UNCHANGED <<obj, _apm, native, config, nDestroy, closed, nops, crashed>>

\* ProcessFrame on a null or released instance is undefined in the library:
\* besides returning some status, the process may die in it.
ProcessFrameCrash(t) ==
    /\ ~crashed
    /\ th[t].pc = "in_ProcessFrame"
    /\ Dangling(th[t].arg)
    /\ crashed' = TRUE
    /\ last' = NoRes
    /\ UNCHANGED <<obj, _apm, _lock, native, config, nDestroy, closed, th, nops>>

\* --------------------------------------------------------------- close
\* The release is attempted whatever the reference is.
Truthy_Always(p) == TRUE

\* if self._apm
Truthy(p) == p # NULL

\* close() up to its test: with no reference it returns at once.
CloseEnter(t, h, op) ==
    /\ IF Truthy(_apm[h])
       THEN /\ th' = [th EXCEPT ![t] = [IdleTh EXCEPT !.pc = "close_call", !.op = op, !.h = h,
                                                      !.afterClose = closed[h]]]
            /\ last' = NoRes
            /\ closed' = closed
       ELSE /\ th' = th
            /\ last' = [NoRes EXCEPT !.t = t, !.op = op, !.h = h, !.kind = "return",
                                     !.afterClose = closed[h]]
            /\ closed' = [closed EXCEPT ![h] = TRUE]

\* close(), or __del__() called by name, on an object the caller holds.
Close(t, h, op) ==
    /\ ~crashed
    /\ Caller(t)
    /\ nops < MaxOps
    /\ obj[h] = "live"
    /\ op \in {"close", "__del__"}
    /\ nops' = nops + 1
    /\ CloseEnter(t, h, op)
    /\ UNCHANGED <<obj, _apm, _lock, native, config, nDestroy, crashed>>

\* The last reference to the object goes away (for an object whose
\* constructor raised: when the exception is dealt with) and the interpreter
\* runs __del__, which calls close().
Finalize(t, h) ==
    /\ ~crashed
    /\ Caller(t)
    /\ obj[h] \in {"live", "failed"}
    /\ Unused(h)
    /\ obj' = [obj EXCEPT ![h] = "ended"]
    /\ CloseEnter(t, h, "finalizer")
    /\ UNCHANGED <<_apm, _lock, native, config, nDestroy, nops, crashed>>

\* apm.DestroyApm(self._apm): the reference is read again and DestroyApm is
\* entered with it.
DestroyApmCall(t) ==
    LET h == th[t].h
        p == _apm[h]
    IN
    /\ ~crashed
    /\ th[t].pc = "close_call"
    /\ th' = [th EXCEPT ![t].pc = "in_DestroyApm", ![t].arg = p]
    /\ nDestroy' = [nDestroy EXCEPT ![p] = @ + 1]
    /\ native' = IF p # NULL /\ native[p] = "live"
                 THEN [native EXCEPT ![p] = "destroying"] ELSE native
    /\ last' = NoRes
    /\ UNCHANGED <<obj, _apm, _lock, config, closed, nops, crashed>>

\* The reference is left in place after the release.
Cleared_Kept(p) == p

\* self._apm = None
Cleared(p) == NULL

\* DestroyApm returns, the instance and the configuration it held are gone;
\* self._apm = None; close() returns.
DestroyApmReturn(t) ==
    LET h == th[t].h
        p == th[t].arg
    IN
    /\ ~crashed
    /\ th[t].pc = "in_DestroyApm"
    /\ native' = IF p # NULL THEN [native EXCEPT ![p] = "destroyed"] ELSE native
    /\ config' = IF p # NULL THEN [config EXCEPT ![p] = <<>>] ELSE config
    /\ _apm' = [_apm EXCEPT ![h] = Cleared(@)]
    /\ closed' = [closed EXCEPT ![h] = TRUE]
    /\ last' = [Return(t, NoFrame) EXCEPT !.called = TRUE, !.arg = p]
    /\ th' = [th EXCEPT ![t] = Finish(t)]
    /\ UNCHANGED <<obj, _lock, nDestroy, nops, crashed>>

\* DestroyApm on a null pointer, or on an instance it was already given, is
\* undefined in the library: the process may die in it.
DestroyApmCrash(t) ==
    /\ ~crashed
    /\ th[t].pc = "in_DestroyApm"
    /\ IF th[t].arg = NULL THEN TRUE ELSE nDestroy[th[t].arg] > 1
    /\ crashed' = TRUE
    /\ last' = NoRes
    /\ UNCHANGED <<obj, _apm, _lock, native, config, nDestroy, closed, th, nops>>

\* ------------------------------------------------------- specification
\* The steps a thread takes whoever else is running, its constructor calls
\* drawing their flags from FlagSet.
CallStepWith(t, FlagSet) ==
    \/ \E h \in Handles, f \in FlagSet : Construct(t, h, f[1], f[2], f[3])
    \/ \E p \in Pointers : CreateApmReturn(t, p)
    \/ \E ret \in StatusCodes : SetConfigReturn(t, ret)
    \/ \E h \in Handles, frame \in Frames : Process(t, h, frame)
    \/ ProcessFrameCall(t)
    \/ \E ret \in StatusCodes : ProcessFrameReturn(t, ret)
    \/ ProcessFrameCrash(t)
    \/ \E h \in Handles, op \in {"close", "__del__"} : Close(t, h, op)
    \/ \E h \in Handles : Finalize(t, h)
    \/ DestroyApmCall(t)
    \/ DestroyApmReturn(t)

\* No statement of the wrapper reads the flags after SetConfig is called, so
\* the threads of Spec construct with the defaults; SpecSeq draws every
\* combination.
CallStep(t) == CallStepWith(t, {DefaultFlags})

Next == \E t \in Threads : CallStep(t) \/ DestroyApmCrash(t)

Spec == Init /\ [][Next]_vars

\* One caller: every call is made by thread 1.  DestroyApmCrash needs a
\* DestroyApm call on a null or already released instance, which one caller
\* never makes (C4_CloseIdempotent states it), so it is no step of NextSeq.
NextSeq == CallStepWith(1, AllFlags)

SpecSeq == Init /\ [][NextSeq]_vars

\* The steps that carry on a call already started: a native call returns, a
\* waiting thread takes the free lock, close() goes on to DestroyApm.
Progress(t) ==
    \/ \E p \in Pointers : CreateApmReturn(t, p)
    \/ \E ret \in StatusCodes : SetConfigReturn(t, ret)
    \/ ProcessFrameCall(t)
    \/ \E ret \in StatusCodes : ProcessFrameReturn(t, ret)
    \/ DestroyApmCall(t)
    \/ DestroyApmReturn(t)

\* Fair scheduling: no thread that can carry on is left out for ever, and a
\* native call that can return does.  Nothing obliges a caller to start a
\* call, or the library to bring the process down.
SpecFair == Spec /\ \A t \in Threads : WF_vars(Progress(t))

\* ------------------------------------------------------------- claims
InProcessFrame(t) == th[t].pc = "in_ProcessFrame"
CloseOps == {"close", "__del__", "finalizer"}

\* C1: process() on a handle on which close() has completed always raises and
\* never enters the native ProcessFrame.
C1_ClosedHandleRejected ==
    /\ \A t \in Threads :
          (th[t].op = "process" /\ th[t].afterClose) => ~InProcessFrame(t)
    /\ (last.op = "process" /\ last.afterClose /\ TypeOk(last.frame))
          => (last.kind = "raise" /\ ~last.called)

\* C2: on one handle at most one thread is inside the native ProcessFrame, and
\* it is the thread that holds the handle's lock; every other caller that got
\* past the type checks is waiting for the lock.
C2_ProcessFrameSerialized ==
    \A t \in Threads :
        InProcessFrame(t) =>
            /\ _lock[th[t].h] = t
            /\ \A u \in Threads \ {t} :
                  (th[u].op = "process" /\ th[u].h = th[t].h) => th[u].pc = "with_lock"

\* C2 witness: one thread is inside ProcessFrame while another caller of
\* process() on the same handle waits for the lock.
C2_Witness ==
    \E t, u \in Threads :
        /\ t # u
        /\ InProcessFrame(t)
        /\ th[u].pc = "with_lock"
        /\ th[u].h = th[t].h

\* C3: every native call that takes the instance (SetConfig, ProcessFrame,
\* DestroyApm) is made while the calling thread holds the handle's lock.
C3_NativeCallsUnderLock ==
    \A t \in Threads :
        th[t].pc \in {"in_SetConfig", "in_ProcessFrame", "in_DestroyApm"}
            => _lock[th[t].h] = t

\* C4: with a single caller, close() calls, __del__() calls and the finalizer,
\* in any number and order, all return without error, and DestroyApm is called
\* at most once with the instance and never with a null reference; a close()
\* that follows a completed one makes no native call.
C4_CloseIdempotent ==
    /\ \A i \in Instances : nDestroy[i] <= 1
    /\ nDestroy[NULL] = 0
    /\ last.op \in CloseOps => last.kind = "return"
    /\ (last.op \in CloseOps /\ last.afterClose) => ~last.called
    /\ \A t \in Threads : th[t].pc = "in_DestroyApm" =>
          (th[t].arg # NULL /\ nDestroy[th[t].arg] = 1)

\* C4 witness: a close() (or the finalizer) has just returned on a handle that
\* an earlier close() already released.
C4_Witness ==
    /\ last.op \in {"close", "finalizer"}
    /\ last.afterClose
    /\ nDestroy[InstanceOf(last.h)] = 1

\* C5: whatever the interleaving of the threads calling close() on a handle,
\* DestroyApm is called exactly once with its instance: never twice, and once
\* by the time a close() has returned.
C5_DestroyedExactlyOnce ==
    \A h \in Handles :
        /\ nDestroy[InstanceOf(h)] <= 1
        /\ (closed[h] /\ native[InstanceOf(h)] # "free") => nDestroy[InstanceOf(h)] = 1

\* C6: whatever supported rate a handle is taken to have, only frames of that
\* rate's chunk length get past validation: no process() call with a frame of
\* another length reaches the lock or the native ProcessFrame.
C6_ExactFrameLength ==
    \A h \in Handles :
        \E r \in SupportedRates :
            \A t \in Threads :
                (th[t].op = "process" /\ th[t].h = h
                    /\ th[t].pc \in {"with_lock", "in_ProcessFrame"})
                  => SamplesOf(th[t].frame) = CHUNK(r)

C8_OutputMatchesInput ==
    /\ (last.op = "process" /\ last.kind = "return") =>
          /\ last.out.kind = "ndarray"
          /\ last.out.size = last.frame.size
          /\ last.out.dtype = last.frame.dtype
          /\ last.samples = last.frame.size
    /\ \A t \in Threads :
          InProcessFrame(t) =>
              (th[t].samples = th[t].frame.size /\ th[t].out.size = th[t].frame.size)

\* C8 witness: process() has just returned a 160-sample frame for a 160-sample
\* frame on a live handle configured with all three features.
C8_Witness ==
    /\ last.op = "process"
    /\ last.kind = "return"
    /\ last.frame.size = 160
    /\ last.out.size = 160
    /\ ~last.afterClose
    /\ config[InstanceOf(last.h)] = << <<1, 1, 1>> >>

\* C9: process() returns an output frame exactly when ProcessFrame returned 0;
\* any other status ends the call with RuntimeError carrying that status and
\* no output frame.
C9_StatusSurfaced ==
    /\ (last.op = "process" /\ last.called) =>
          /\ last.kind = "return" <=> last.ret = {0}
          /\ last.kind = "return" => last.out # NoFrame
          /\ last.ret # {0} =>
                /\ last.kind = "raise"
                /\ last.exc = "RuntimeError"
                /\ last.code = last.ret
                /\ last.out = NoFrame
    /\ (last.op = "process" /\ last.out # NoFrame) => (last.called /\ last.ret = {0})

\* C9 witness: ProcessFrame returned -1 and process() raised RuntimeError
\* carrying -1.
C9_Witness ==
    /\ last.op = "process"
    /\ last.called
    /\ last.ret = {-1}
    /\ last.kind = "raise"
    /\ last.code = {-1}

\* C10: the constructor raises RuntimeError when CreateApm returns null or
\* SetConfig returns non-zero, and the object is then never handed to a caller
\* (only the finalizer touches it); SetConfig is never entered with a null
\* instance.
C10_InitFailure ==
    /\ \A t \in Threads : th[t].pc = "in_SetConfig" => th[t].arg # NULL
    /\ last.op = "__init__" =>
          /\ last.kind = "return" <=> (last.arg # NULL /\ last.ret = {0})
          /\ last.kind = "return" <=> obj[last.h] = "live"
          /\ last.kind # "return" =>
                (last.kind = "raise" /\ last.exc = "RuntimeError" /\ obj[last.h] = "failed")
    /\ \A t \in Threads :
          th[t].op \in {"process", "close", "__del__"} => obj[th[t].h] = "live"

\* C10 witness: SetConfig returned non-zero and the constructor raised.
C10_Witness ==
    /\ last.op = "__init__"
    /\ last.kind = "raise"
    /\ last.msg = "SetConfig"
    /\ last.ret = {1}
    /\ obj[last.h] = "failed"

\* C11: once close() has returned on a handle its instance reference is null
\* and stays null, and every process() call made from then on fails.
C11_ClosedIsFinal ==
    /\ \A h \in Handles : closed[h] => _apm[h] = NULL
    /\ (last.op = "process" /\ last.afterClose) => last.kind = "raise"

\* C15: ProcessFrame is never inside the library with an instance that
\* DestroyApm has been called on, whether that call is still running (the two
\* overlap) or has returned (use after release).
C15_NoUseAfterRelease ==
    \A t \in Threads :
        (InProcessFrame(t) /\ th[t].arg # NULL) => native[th[t].arg] = "live"

\* C17: once the finalizer of a handle object has run, DestroyApm has been
\* called with its instance as many times as CreateApm succeeded for it (once,
\* or never when CreateApm returned null), and DestroyApm is never entered for
\* an object whose CreateApm returned null.
C17_DestroyMatchesCreate ==
    /\ \A h \in Handles :
          (obj[h] = "ended" /\ Unused(h)) =>
              nDestroy[InstanceOf(h)] = (IF native[InstanceOf(h)] = "free" THEN 0 ELSE 1)
    /\ \A t \in Threads :
          th[t].pc = "in_DestroyApm" => native[InstanceOf(th[t].h)] # "free"

\* The finalizer of h is running in thread t on a handle that no close() had
\* returned on.
FinalizerReleasing(t, h) ==
    /\ th[t].op = "finalizer"
    /\ th[t].h = h
    /\ ~th[t].afterClose

\* C12: a finalizer that runs on a handle on which close() had not been called
\* calls DestroyApm exactly once, with the handle's instance, and under fair
\* scheduling the instance is eventually released (unless the process dies in
\* the library meanwhile); a finalizer that runs after a close() has returned
\* never reaches a DestroyApm call.
C12_FinalizerReleases ==
    /\ [](\A t \in Threads :
            /\ (th[t].op = "finalizer" /\ th[t].afterClose) => th[t].pc = "idle"
            /\ (th[t].op = "finalizer" /\ th[t].pc = "in_DestroyApm") =>
                  (th[t].arg = InstanceOf(th[t].h) /\ nDestroy[th[t].arg] = 1))
    /\ []((last.op = "finalizer" /\ last.afterClose) => ~last.called)
    /\ []((last.op = "finalizer" /\ ~last.afterClose /\ obj[last.h] = "ended"
              /\ native[InstanceOf(last.h)] # "free") =>
            (last.called /\ last.arg = InstanceOf(last.h)
                /\ nDestroy[InstanceOf(last.h)] = 1
                /\ native[InstanceOf(last.h)] = "destroyed"))
    /\ \A t \in Threads, h \in Handles :
          FinalizerReleasing(t, h) ~>
              ((native[InstanceOf(h)] = "destroyed" /\ nDestroy[InstanceOf(h)] = 1) \/ crashed)

\* C12 witness: the finalizer has just returned from the one DestroyApm call
\* made on a live handle that was never closed.
C12_Witness ==
    /\ last.op = "finalizer"
    /\ ~last.afterClose
    /\ last.called
    /\ nDestroy[InstanceOf(last.h)] = 1
    /\ config[InstanceOf(last.h)] = <<>>
    /\ native[InstanceOf(last.h)] = "destroyed"

\* C13: under fair scheduling every process() call that got past the type
\* checks ends: it returns or raises to its caller, however many threads are
\* calling on the handle, and none waits for the lock for ever.  (The process
\* dying in the library is the native call not returning.)
C13_ProcessCompletes ==
    \A t \in Threads :
        (th[t].op = "process" /\ th[t].pc \in {"with_lock", "in_ProcessFrame"}) ~>
            \/ (last.t = t /\ last.op = "process" /\ last.kind \in {"return", "raise"}
                    /\ th[t].pc = "idle" /\ _lock[last.h] # t)
            \/ crashed

\* C13 witness: two threads are in process() on the same live handle, each
\* with a different valid frame: one inside ProcessFrame, the other waiting
\* for the lock.
C13_Witness ==
    \E h \in Handles, t, u \in Threads :
        /\ native[InstanceOf(h)] = "live"
        /\ _apm[h] = InstanceOf(h)
        /\ th[t].op = "process" /\ th[t].h = h /\ TypeOk(th[t].frame)
        /\ th[u].op = "process" /\ th[u].h = h /\ TypeOk(th[u].frame)
        /\ th[t].frame # th[u].frame
        /\ InProcessFrame(t) /\ _lock[h] = t
        /\ th[u].pc = "with_lock"

\* What the program holds for handle object h: the object's fields and the
\* instance made for it.
HandleState(h) ==
    <<obj[h], _apm[h], _lock[h], closed[h], native[InstanceOf(h)], config[InstanceOf(h)],
      nDestroy[InstanceOf(h)]>>

\* The step is one of a call on handle object h.
StepOn(h) ==
    \/ \E t \in Threads : th'[t] # th[t] /\ (th[t].h = h \/ th'[t].h = h)
    \/ last'.h = h

\* C14: handles are independent.  In a running process a thread waiting for
\* the lock of handle A takes it as soon as A's own lock is free, whoever
\* holds the lock of another handle, and a thread inside ProcessFrame on A can
\* come back with every status; and no step of a call on another handle
\* (close() included) changes anything held for A.
C14_HandlesIndependent ==
    /\ [](\A t \in Threads :
            /\ (th[t].pc = "with_lock" /\ _lock[th[t].h] = NoThread /\ ~crashed)
                  => ENABLED ProcessFrameCall(t)
            /\ (InProcessFrame(t) /\ ~crashed)
                  => \A ret \in StatusCodes : ENABLED ProcessFrameReturn(t, ret))
    /\ [][\A a \in Handles : (HandleState(a)' # HandleState(a)) => StepOn(a)]_vars

\* C14 witness: two threads are inside ProcessFrame at once, each holding the
\* lock of its own handle.
C14_Witness ==
    \E t, u \in Threads :
        /\ th[t].h # th[u].h
        /\ InProcessFrame(t) /\ _lock[th[t].h] = t
        /\ InProcessFrame(u) /\ _lock[th[u].h] = u

\* The step is one of a process() call.
ProcessStep ==
    \/ \E t \in Threads : th'[t] # th[t] /\ (th[t].op = "process" \/ th'[t].op = "process")
    \/ last'.op = "process"

\* C16: a process() call that raises, for a wrong frame or for a non-zero
\* status, leaves the handle as it found it: no step of process() changes the
\* instance reference or the instance, the caller that failed does not hold
\* the lock, the lock is only ever held by a thread inside ProcessFrame, and
\* a caller waiting for the free lock of that handle can take it and enter
\* ProcessFrame.
C16_FailureLeavesHandleUsable ==
    /\ [][ProcessStep => UNCHANGED <<obj, _apm, native, config, nDestroy, closed>>]_vars
    /\ []((last.op = "process" /\ last.kind = "raise") =>
            /\ _lock[last.h] # last.t
            /\ th[last.t].pc = "idle"
            /\ \A u \in Threads :
                  (th[u].pc = "with_lock" /\ th[u].h = last.h /\ _lock[last.h] = NoThread
                      /\ ~crashed)
                    => ENABLED ProcessFrameCall(u))
    /\ [](\A h \in Handles :
            _lock[h] # NoThread => (InProcessFrame(_lock[h]) /\ th[_lock[h]].h = h))

\* C16 witness: process() has just raised RuntimeError for a non-zero status
\* on a live handle; the reference is still the instance, the lock is free and
\* the next caller is about to take it.
C16_Witness ==
    /\ last.op = "process"
    /\ last.kind = "raise"
    /\ last.exc = "RuntimeError"
    /\ last.code = {1}
    /\ _apm[last.h] = InstanceOf(last.h)
    /\ native[InstanceOf(last.h)] = "live"
    /\ _lock[last.h] = NoThread
    /\ \E u \in Threads : th[u].pc = "with_lock" /\ th[u].h = last.h

\* The three SetConfig arguments the claim asks for: 1 for a flag that is
\* true, 0 for one that is false, in the order aec, ns, agc.
Requested(flags) ==
    <<IF flags[1] THEN 1 ELSE 0, IF flags[2] THEN 1 ELSE 0, IF flags[3] THEN 1 ELSE 0>>

\* C18: a constructor call enters CreateApm once, from there SetConfig once
\* with the requested flags as 1 and 0 in the order aec, ns, agc, and returns
\* a handle whose instance has had that one SetConfig call and no other; the
\* configuration of an instance changes at no other step, until the instance
\* is released.
C18_ConfiguredAsRequested ==
    /\ [](\A t \in Threads :
            th[t].pc = "in_SetConfig" =>
                /\ th[t].flags \in AllFlags
                /\ th[t].arg = InstanceOf(th[t].h)
                /\ config[th[t].arg] = <<Requested(th[t].flags)>>)
    /\ []((last.op = "__init__" /\ last.kind = "return") =>
            /\ last.flags \in AllFlags
            /\ _apm[last.h] = InstanceOf(last.h)
            /\ native[InstanceOf(last.h)] = "live"
            /\ config[InstanceOf(last.h)] = <<Requested(last.flags)>>)
    /\ [](\A i \in Instances : Len(config[i]) <= 1)
    /\ [][\A t \in Threads :
            /\ (th'[t].pc = "in_CreateApm" /\ th[t].pc # "in_CreateApm") => th[t].pc = "idle"
            /\ (th'[t].pc = "in_SetConfig" /\ th[t].pc # "in_SetConfig") =>
                  th[t].pc = "in_CreateApm"
            /\ (th[t].pc = "in_CreateApm" /\ th'[t].pc # "in_CreateApm") =>
                  (th'[t].pc = "in_SetConfig" \/ last'.kind = "raise")
            /\ (th[t].pc = "in_SetConfig" /\ th'[t].pc # "in_SetConfig") =>
                  (th'[t].pc = "idle" /\ last'.op = "__init__")]_vars
    /\ [][\A i \in Instances :
            config'[i] # config[i] =>
                \/ \E t \in Threads : /\ th[t].pc = "in_CreateApm"
                                       /\ th'[t].pc = "in_SetConfig"
                                       /\ th'[t].arg = i
                                       /\ config[i] = <<>>
                \/ config'[i] = <<>> /\ native'[i] = "destroyed"]_vars

\* C18 witness: the constructor has just returned a live handle asked for with
\* noise suppression only, and its instance was configured with (0, 1, 0).
C18_Witness ==
    /\ last.op = "__init__"
    /\ last.kind = "return"
    /\ last.flags = <<FALSE, TRUE, FALSE>>
    /\ obj[last.h] = "live"
    /\ config[InstanceOf(last.h)] = << <<0, 1, 0>> >>

\* Thread t is in a process() call that got past the type checks.
Processing(t) == th[t].op = "process" /\ th[t].pc \in {"with_lock", "in_ProcessFrame"}

\* C19: the array process() writes and returns is never the caller's input:
\* it is allocated by the call itself (it is none of the arrays that existed
\* when the call was made), the library writes through the pointer to that
\* array only, no call in progress has it as its input or its output, and a
\* call that raises hands out no array and has written to none of the
\* caller's.
C19_InputKeptOutputFresh ==
    /\ [](\A t \in Threads :
            Processing(t) =>
                /\ th[t].outbuf \notin {NoBuffer, CallerBuffer}
                /\ th[t].outbuf # th[t].inbuf
                /\ \A u \in Threads \ {t} :
                      Processing(u) =>
                          (th[u].inbuf # th[t].outbuf /\ th[u].outbuf # th[t].outbuf))
    /\ [](last.op = "process" =>
            /\ last.wrote # last.inbuf
            /\ last.kind = "return" =>
                  (last.outbuf \notin {NoBuffer, CallerBuffer, last.inbuf}
                      /\ last.wrote = last.outbuf)
            /\ last.kind = "raise" => last.outbuf = NoBuffer
            /\ ~last.called => last.wrote = NoBuffer)
    /\ [][\A t \in Threads :
            (~Processing(t) /\ Processing(t)') =>
                /\ th'[t].outbuf \notin 1..nops
                /\ th'[t].outbuf \notin {th[u].inbuf : u \in Threads}
                /\ th'[t].outbuf \notin {th[u].outbuf : u \in Threads}
                /\ th'[t].outbuf \notin {last.inbuf, last.outbuf}]_vars

\* C19 witness: process() has just returned for an input that was itself the
\* output of the call before it: the array returned is a third one.
C19_Witness ==
    /\ last.op = "process"
    /\ last.kind = "return"
    /\ last.inbuf \notin {NoBuffer, CallerBuffer}
    /\ last.outbuf \notin {NoBuffer, CallerBuffer, last.inbuf}
    /\ last.wrote = last.outbuf

====
